---- MODULE Spec2Model ----
(***************************************************************************)
(* A model of can/interfaces/gs_usb.py: the GsUsbBus session around one   *)
(* gs_usb device.  The state is the session object, the device it drives, *)
(* the frame in flight on the device, and the log of every call the       *)
(* session makes on its collaborators (GsUsb, the device handle, BusABC). *)
(*                                                                         *)
(* Representation.                                                         *)
(*   Optional values: Python's None is <<>>, a value v is <<v>>.          *)
(*   32-bit fields (can_id, flags, echo_id) are sets of bit positions     *)
(*   0..31, so | is \cup and & is \cap; 0x80000000 and 0xFFFFFFFF do not  *)
(*   fit a signed 32-bit integer, the bit sets {31} and 0..31 do.  A    *)
(*   message's arbitration_id is such a set too.                          *)
(*   The float `timeout` of _recv_internal is a number of ticks of        *)
(*   1/TicksPerSecond s; every such value and its product with 1000 is    *)
(*   exact in binary floating point, so round() is computed exactly.      *)
(***************************************************************************)
EXTENDS Integers, Sequences, FiniteSets

VARIABLES
    pc,       \* "new" | "failed" | "open" | "closed": where the caller stands
    given,    \* the arguments __init__ was called with
    self,     \* the session's fields: gs_usb, channel_info
    dev,      \* the selected device: "unconfigured" | "running" | "stopped"
    wire,     \* the frame the device holds for read-back, with its message
    calls,    \* every call made on GsUsb, the device handle and BusABC
    last,     \* the last operation: its inputs, what it raised or returned
    ops       \* operations called on the constructed session

vars == <<pc, given, self, dev, wire, calls, last, ops>>

(* ------------------------------ bounds -------------------------------- *)

MaxDevs == 2
MaxOps == 3
MaxLen == 2
MaxTicks == 3

(* --------------------------- Python values ---------------------------- *)

None == <<>>
Some(v) == <<v>>

\* Python truth value of an optional integer: None and 0 are false.
Truthy(v) == v # None /\ v[1] # 0

\* Python's `a or b`: a when a is true, else b.
PyOr(a, b) == IF Truthy(a) THEN a ELSE b

\* Python's round(n / d) for d > 0: to the nearest integer, ties to even.
PyRound(n, d) ==
    LET q == n \div d
        r == n % d
    IN  IF 2 * r < d THEN q
        ELSE IF 2 * r > d THEN q + 1
        ELSE IF q % 2 = 0 THEN q ELSE q + 1

(* --------------------------- 32-bit fields ---------------------------- *)

\* The bits of a natural number below 2^31.
Word(n) == {i \in 0..30 : (n \div 2^i) % 2 = 1}

CAN_EFF_FLAG == {31}
CAN_RTR_FLAG == {30}
CAN_ERR_FLAG == {29}
CAN_EFF_MASK == 0..28

GS_CAN_FLAG_FD == {1}
GS_CAN_FLAG_BRS == {2}
GS_CAN_FLAG_ESI == {3}

GS_USB_ECHO_ID == {}
GS_USB_NONE_ECHO_ID == 0..31

(* ----------------------------- exceptions ----------------------------- *)

\* An exception: its class, its message text, the numbers and the channel
\* formatted into the message, and the class of the exception it wraps.
Exc(type, text, args, channel, cause) ==
    [type |-> type, text |-> text, args |-> args, channel |-> channel,
     cause |-> cause]

NoExc == Exc("", "", <<>>, "", "")

CanInitializationError(text, args, channel) ==
    Exc("CanInitializationError", text, args, channel, "")

CanOperationError(text, cause) ==
    Exc("CanOperationError", text, <<>>, "", cause)

\* What a collaborator raises when it fails, propagating unchanged.
Raised(type) == Exc(type, "", <<>>, "", "")

(* ---------------------------- construction ---------------------------- *)

Channels == {"can0"}
Bitrate == 500000
DataBitrates == {None, Some(2000000)}
Indexes == {None} \cup {Some(i) : i \in -1..MaxDevs}
Topology == {None, Some(0), Some(1)}

\* GsUsb.scan(): the attached devices in discovery order, named 0..n-1.
Scan(ndevs) == [k \in 1..ndevs |-> k - 1]

\* `(index is not None) and ((bus or address) is not None)`
IndexAndBusAddress(index, bus, address) ==
    index # None /\ PyOr(bus, address) # None

\* Python's list subscript devs[i]: from the end for a negative i, an
\* IndexError outside -len..len-1.
Subscript(devs, i) ==
    IF 0 <= i /\ i < Len(devs) THEN Some(devs[i + 1])
    ELSE IF i < 0 /\ -Len(devs) <= i THEN Some(devs[Len(devs) + i + 1])
    ELSE None

\* Device selection: by index in the scan result, else by GsUsb.find, whose
\* answer `found` is the environment's.
SelectDevice(channel, index, ndevs, found) ==
    IF index # None THEN
        LET devs == Scan(ndevs)
            i == index[1]
        IN  IF Len(devs) <= i THEN
                [calls |-> <<"GsUsb.scan">>, gs_usb |-> None,
                 exc |-> CanInitializationError(
                     "Cannot find device {index}. Devices found: {len(devs)}",
                     <<i, Len(devs)>>, "")]
            ELSE IF Subscript(devs, i) = None THEN
                [calls |-> <<"GsUsb.scan">>, gs_usb |-> None,
                 exc |-> Raised("IndexError")]
            ELSE
                [calls |-> <<"GsUsb.scan">>, gs_usb |-> Subscript(devs, i),
                 exc |-> NoExc]
    ELSE
        IF found = None THEN
            [calls |-> <<"GsUsb.find">>, gs_usb |-> None,
             exc |-> CanInitializationError(
                 "Cannot find device {channel}", <<>>, channel)]
        ELSE
            [calls |-> <<"GsUsb.find">>, gs_usb |-> found, exc |-> NoExc]

\* A constructor that starts the device before it sets the bitrates.
ConfigStepsStartFirst(data_bitrate) ==
    <<"start", "set_bitrate">>
    \o (IF data_bitrate # None THEN <<"set_bitrate(data)">> ELSE <<>>)

\* The device commands of __init__, in order: the nominal bitrate, the data
\* bitrate when one is given, start.
ConfigSteps(data_bitrate) ==
    <<"set_bitrate">>
    \o (IF data_bitrate # None THEN <<"set_bitrate(data)">> ELSE <<>>)
    \o <<"start">>

\* The error __init__ ends with when the device command `step` raises.
ConfigFailure(step) == Raised("USBError")

\* Running the device commands, the failAt-th raising a USBError (0: none
\* does).  A start that raises has either taken effect on the device or
\* not (`took`).  BusABC.__init__ runs after a start that returned.
Configure(data_bitrate, failAt, took) ==
    LET steps == ConfigSteps(data_bitrate)
    IN  IF failAt = 0 THEN
            [calls |-> steps \o <<"BusABC.__init__">>, exc |-> NoExc,
             dev |-> "running"]
        ELSE
            [calls |-> SubSeq(steps, 1, failAt),
             exc |-> ConfigFailure(steps[failAt]),
             dev |-> IF steps[failAt] = "start" /\ took
                     THEN "running" ELSE "unconfigured"]

\* GsUsbBus.__init__ as a whole.
InitRun(channel, data_bitrate, index, bus, address, ndevs, found, failAt, took) ==
    IF IndexAndBusAddress(index, bus, address) THEN
        [calls |-> <<>>, gs_usb |-> None, channel_info |-> None,
         dev |-> "unconfigured",
         exc |-> CanInitializationError(
             "index and bus/address cannot be used simultaneously", <<>>, "")]
    ELSE
        LET s == SelectDevice(channel, index, ndevs, found)
        IN  IF s.exc # NoExc THEN
                [calls |-> s.calls, gs_usb |-> None, channel_info |-> None,
                 dev |-> "unconfigured", exc |-> s.exc]
            ELSE
                LET c == Configure(data_bitrate, failAt, took)
                IN  [calls |-> s.calls \o c.calls, gs_usb |-> s.gs_usb,
                     channel_info |-> Some(channel), dev |-> c.dev,
                     exc |-> c.exc]

GsUsbBus_init(channel, data_bitrate, index, bus, address, ndevs, found, failAt, took) ==
    /\ pc = "new"
    /\ failAt <= Len(ConfigSteps(data_bitrate))
    /\ LET r == InitRun(channel, data_bitrate, index, bus, address,
                        ndevs, found, failAt, took)
       IN  /\ pc' = IF r.exc = NoExc THEN "open" ELSE "failed"
           /\ given' = [bitrate |-> Some(Bitrate), data_bitrate |-> data_bitrate]
           /\ self' = [gs_usb |-> r.gs_usb, channel_info |-> r.channel_info]
           /\ dev' = r.dev
           /\ calls' = r.calls
           /\ last' = [op |-> "init", channel |-> channel, index |-> index,
                       bus |-> bus, address |-> address, ndevs |-> ndevs,
                       found |-> found, failAt |-> failAt, exc |-> r.exc]
    /\ UNCHANGED <<wire, ops>>

(* ------------------------------ messages ------------------------------ *)

\* can.Message, with the fields this interface reads and sets.
Message(timestamp, arbitration_id, is_extended_id, is_remote_frame, is_error_frame, channel, dlc, data, is_rx, is_fd, bitrate_switch, error_state_indicator) ==
    [timestamp |-> timestamp, arbitration_id |-> arbitration_id,
     is_extended_id |-> is_extended_id, is_remote_frame |-> is_remote_frame,
     is_error_frame |-> is_error_frame, channel |-> channel, dlc |-> dlc,
     data |-> data, is_rx |-> is_rx, is_fd |-> is_fd,
     bitrate_switch |-> bitrate_switch,
     error_state_indicator |-> error_state_indicator]

Bytes == {1, 255}
Payloads == UNION {[1..n -> Bytes] : n \in 0..MaxLen}
Timestamps == {1}

\* Identifiers within the 11-bit range, or the 29-bit range of an extended id.
ArbitrationIds(is_extended_id) ==
    IF is_extended_id THEN {Word(291), Word(536870911)} ELSE {Word(291)}

\* A message as a caller builds it: is_rx and channel at their defaults.  A
\* remote frame carries no data and declares the length it requests; any
\* other frame declares the length of its data.
NewMessage(timestamp, arbitration_id, flags, dlc, data) ==
    Message(timestamp, arbitration_id, flags[1], flags[2], flags[3], None,
            dlc, data, TRUE, flags[4], flags[5], flags[6])

\* The messages handed to send: every combination of the six flags.
Messages ==
    UNION {
        IF f[2] THEN
            {NewMessage(t, id, f, n, <<>>) :
                t \in Timestamps, id \in ArbitrationIds(f[1]), n \in 0..MaxLen}
        ELSE
            {NewMessage(t, id, f, Len(d), d) :
                t \in Timestamps, id \in ArbitrationIds(f[1]), d \in Payloads}
        : f \in [1..6 -> BOOLEAN]}

(* ------------------------------- frames ------------------------------- *)

\* gs_usb's GsUsbFrame(can_id, is_fd, brs, esi, data): a transmit frame with
\* the echo id of a frame to be echoed, the three flag bits, the data padded
\* with zeroes to the frame's size, and the length of the data given.
GsUsbFrame(can_id, is_fd, brs, esi, data) ==
    [echo_id |-> GS_USB_ECHO_ID,
     can_id |-> can_id,
     flags |-> (IF is_fd THEN GS_CAN_FLAG_FD ELSE {})
               \cup (IF brs THEN GS_CAN_FLAG_BRS ELSE {})
               \cup (IF esi THEN GS_CAN_FLAG_ESI ELSE {}),
     length |-> Len(data),
     data |-> data \o [k \in 1..(8 - Len(data)) |-> 0],
     timestamp_us |-> 0]

\* The frame's read-only properties.
FrameArbitrationId(frame) == frame.can_id \cap CAN_EFF_MASK
FrameIsExtendedId(frame) == frame.can_id \cap CAN_EFF_FLAG # {}
FrameIsRemoteFrame(frame) == frame.can_id \cap CAN_RTR_FLAG # {}
FrameIsErrorFrame(frame) == frame.can_id \cap CAN_ERR_FLAG # {}
FrameTimestamp(frame) == frame.timestamp_us \div 1000000

(* -------------------------------- send -------------------------------- *)

\* can_id: the arbitration id with the marker bits of the three flags.
SendCanId(msg) ==
    msg.arbitration_id
    \cup (IF msg.is_extended_id THEN CAN_EFF_FLAG ELSE {})
    \cup (IF msg.is_remote_frame THEN CAN_RTR_FLAG ELSE {})
    \cup (IF msg.is_error_frame THEN CAN_ERR_FLAG ELSE {})

\* The frame send hands to the device.
SendFrame(msg) ==
    [GsUsbFrame(SendCanId(msg), msg.is_fd, msg.bitrate_switch,
                msg.error_state_indicator, msg.data)
     EXCEPT !.timestamp_us = msg.timestamp * 1000000]

\* The device calls of one send, whatever the device answers.
SendCalls(outcome) == <<"send">>

\* A send without its try/except: the USBError propagates as it is.
SendExcUncaught(outcome) ==
    IF outcome = "USBError" THEN Raised("USBError") ELSE NoExc

\* What send raises: a USBError of the device becomes a CanOperationError
\* raised from it.
SendExc(outcome) ==
    IF outcome = "USBError"
    THEN CanOperationError("The message could not be sent", "USBError")
    ELSE NoExc

Outcomes == {"ok", "USBError"}

send(msg, outcome) ==
    /\ ops' = ops + 1
    /\ calls' = calls \o SendCalls(outcome)
    /\ wire' = IF outcome = "ok"
               THEN Some([frame |-> SendFrame(msg), msg |-> msg])
               ELSE wire
    /\ last' = [op |-> "send", msg |-> msg, frame |-> SendFrame(msg),
                outcome |-> outcome, exc |-> SendExc(outcome)]
    /\ UNCHANGED <<pc, given, self, dev>>

(* --------------------------- _recv_internal --------------------------- *)

\* One second of the `timeout` argument, in the ticks it is given in.
TicksPerSecond == 2048

Timeouts ==
    {None} \cup {Some(k) : k \in 0..MaxTicks}
    \cup {Some(TicksPerSecond \div 16), Some(TicksPerSecond \div 2)}

\* `round(timeout * 1000) if timeout else 1`
TimeoutMs(timeout) ==
    IF Truthy(timeout) THEN PyRound(timeout[1] * 1000, TicksPerSecond) ELSE 1

\* An is_rx that takes only the echo id of a transmit frame for an echo.
IsRxUnlessEchoId(frame) == frame.echo_id # GS_USB_ECHO_ID

\* is_rx: the frame is no echo of a frame this session sent.
IsRx(frame) == frame.echo_id = GS_USB_NONE_ECHO_ID

\* The channel stamped on a received message.
RecvChannel(channel_info) == channel_info

\* The message built from a frame the device delivered.
Decode(frame, channel_info) ==
    Message(FrameTimestamp(frame), FrameArbitrationId(frame),
            FrameIsExtendedId(frame), FrameIsRemoteFrame(frame),
            FrameIsErrorFrame(frame), RecvChannel(channel_info), frame.length,
            SubSeq(frame.data, 1, frame.length), IsRx(frame),
            frame.flags \cap GS_CAN_FLAG_FD # {},
            frame.flags \cap GS_CAN_FLAG_BRS # {},
            frame.flags \cap GS_CAN_FLAG_ESI # {})

EchoIds == {GS_USB_NONE_ECHO_ID, GS_USB_ECHO_ID, (0..31) \ {0}}

\* A frame another node of the bus sends, as the device hands it over.
BusFrames ==
    {[GsUsbFrame(Word(536870911) \cup CAN_EFF_FLAG, TRUE, TRUE, FALSE, <<1, 255>>)
      EXCEPT !.timestamp_us = 2000000]}

\* What one gs_usb.read can do: return False, raise, or fill the frame and
\* return True, with the echo of the frame in flight or with a frame of the
\* bus under any echo id.
Reads(w) ==
    {[kind |-> k, frame |-> GsUsbFrame({}, FALSE, FALSE, FALSE, <<>>),
      src |-> None] : k \in {"none", "raise"}}
    \cup {[kind |-> "frame", frame |-> [f EXCEPT !.echo_id = e], src |-> None] :
            f \in BusFrames, e \in EchoIds}
    \cup (IF w = None THEN {}
          ELSE {[kind |-> "echo", frame |-> w[1].frame, src |-> Some(w[1].msg)]})

\* What _recv_internal raises: an exception of the read is not caught.
RecvExc(rd) == IF rd.kind = "raise" THEN Raised("USBError") ELSE NoExc

\* What _recv_internal returns; nothing when it raises.
RecvRet(rd, channel_info) ==
    IF rd.kind = "raise" THEN <<>>
    ELSE IF rd.kind = "none" THEN <<None, FALSE>>
    ELSE <<Some(Decode(rd.frame, channel_info)), FALSE>>

recv_internal(timeout, rd) ==
    /\ ops' = ops + 1
    /\ calls' = Append(calls, "read")
    /\ wire' = IF rd.kind = "echo" THEN None ELSE wire
    /\ last' = [op |-> "recv", timeout |-> timeout,
                timeout_ms |-> TimeoutMs(timeout), read |-> rd.kind,
                frame |-> rd.frame, src |-> rd.src, exc |-> RecvExc(rd),
                ret |-> RecvRet(rd, self.channel_info)]
    /\ UNCHANGED <<pc, given, self, dev>>

(* ------------------------------ shutdown ------------------------------ *)

\* A shutdown that stops the device before it releases the bus.
ShutdownCallsStopFirst == <<"stop", "BusABC.shutdown">>

\* The calls of one shutdown: BusABC.shutdown, then the device's stop.
ShutdownCalls == <<"BusABC.shutdown", "stop">>

\* A stop that raises is not caught, and has stopped the device or not.
shutdown(outcome, took) ==
    /\ ops' = ops + 1
    /\ pc' = "closed"
    /\ calls' = calls \o ShutdownCalls
    /\ dev' = IF outcome = "ok" \/ took THEN "stopped" ELSE dev
    /\ last' = [op |-> "shutdown", outcome |-> outcome,
                exc |-> IF outcome = "ok" THEN NoExc ELSE Raised(outcome)]
    /\ UNCHANGED <<given, self, wire>>

(* --------------------------- specifications --------------------------- *)

\* Before construction: no session, no call made.
Init ==
    /\ pc = "new"
    /\ given = [bitrate |-> None, data_bitrate |-> None]
    /\ self = [gs_usb |-> None, channel_info |-> None]
    /\ dev = "unconfigured"
    /\ wire = None
    /\ calls = <<>>
    /\ last = [op |-> "none", exc |-> NoExc]
    /\ ops = 0

Flags(ext, rtr, err, fd, brs, esi) == <<ext, rtr, err, fd, brs, esi>>

\* The messages of the session's life: a classic data frame, an extended
\* remote request, an FD frame with both FD flags.
SomeMessages ==
    {NewMessage(0, Word(291), Flags(FALSE, FALSE, FALSE, FALSE, FALSE, FALSE),
                2, <<1, 255>>),
     NewMessage(1, Word(536870911), Flags(TRUE, TRUE, FALSE, FALSE, FALSE, FALSE),
                2, <<>>),
     NewMessage(1, Word(291), Flags(FALSE, FALSE, FALSE, TRUE, TRUE, TRUE),
                1, <<255>>)}

\* The caller's side of each operation: a session is constructed once, and
\* its operations are called on the constructed session.
Constructed == pc \in {"open", "closed"} /\ ops < MaxOps

Construct ==
    /\ pc = "new"
    /\ \E channel \in Channels, data_bitrate \in DataBitrates, index \in Indexes,
          bus \in Topology, address \in Topology, ndevs \in 0..MaxDevs,
          failAt \in 0..3, took \in BOOLEAN :
        \E found \in {None} \cup {Some(d) : d \in 0..(ndevs - 1)} :
            GsUsbBus_init(channel, data_bitrate, index, bus, address, ndevs,
                          found, failAt, took)

Send ==
    /\ Constructed
    /\ \E msg \in SomeMessages, outcome \in Outcomes : send(msg, outcome)

Recv ==
    /\ Constructed
    /\ \E timeout \in Timeouts, rd \in Reads(wire) : recv_internal(timeout, rd)

Shutdown ==
    /\ Constructed
    /\ \E outcome \in Outcomes, took \in BOOLEAN : shutdown(outcome, took)

Next == Construct \/ Send \/ Recv \/ Shutdown

Spec == Init /\ [][Next]_vars

\* The round trip of a frame: a session constructed on the one device found,
\* whose caller sends any message once the device holds no frame, and polls.
CodecInit ==
    LET r == InitRun("can0", None, Some(0), None, None, 1, None, 0, FALSE)
    IN  /\ pc = "open"
        /\ given = [bitrate |-> Some(Bitrate), data_bitrate |-> None]
        /\ self = [gs_usb |-> r.gs_usb, channel_info |-> r.channel_info]
        /\ dev = r.dev
        /\ wire = None
        /\ calls = r.calls
        /\ last = [op |-> "init", exc |-> r.exc]
        /\ ops = 0

CodecSend ==
    /\ Constructed
    /\ wire = None
    /\ \E msg \in Messages : send(msg, "ok")

CodecRecv ==
    /\ Constructed
    /\ \E rd \in Reads(wire) : recv_internal(None, rd)

CodecNext == CodecSend \/ CodecRecv

CodecSpec == CodecInit /\ [][CodecNext]_vars

(* ------------------------------- claims ------------------------------- *)

ConfigurationError ==
    CanInitializationError(
        "index and bus/address cannot be used simultaneously", <<>>, "")

\* C1: a construction given an index together with a bus or an address (any
\* integer, 0 included) fails with the configuration error, before any scan,
\* find, bitrate or start call.
C1_IndexExcludesBusAddress ==
    (/\ last.op = "init"
     /\ last.index # None
     /\ (last.bus # None \/ last.address # None))
    => /\ last.exc = ConfigurationError
       /\ calls = <<>>

\* C2: _recv_internal never raises: it returns a pair, and the pair is
\* (None, False) when the read raised or delivered no frame.
C2_RecvNeverRaises ==
    last.op = "recv"
    => /\ last.exc = NoExc
       /\ Len(last.ret) = 2
       /\ (last.read \in {"none", "raise"} => last.ret = <<None, FALSE>>)

\* C3: the timeout handed to the read is a positive number of milliseconds:
\* 1 for None and for 0, and for a positive wait the wait in milliseconds
\* rounded to an integer (500 for half a second), never 0.
C3_TimeoutNormalised ==
    last.op = "recv"
    => /\ last.timeout_ms >= 1
       /\ (~Truthy(last.timeout) => last.timeout_ms = 1)
       /\ (last.timeout = Some(TicksPerSecond \div 2) => last.timeout_ms = 500)
       /\ (Truthy(last.timeout) =>
            LET diff == last.timeout_ms * TicksPerSecond - last.timeout[1] * 1000
            IN  -TicksPerSecond <= 2 * diff /\ 2 * diff <= TicksPerSecond)

\* C4: when a bitrate command or the start command fails, construction ends
\* with a CanInitializationError, returns no session, and the device is not
\* left running.
C4_ConfigFailureIsInitError ==
    (last.op = "init" /\ self.gs_usb # None /\ last.failAt > 0)
    => /\ last.exc.type = "CanInitializationError"
       /\ pc = "failed"
       /\ dev # "running"

\* C5: a construction by index alone selects the device at that position of
\* the scan result exactly when 0 <= index < number of devices; any other
\* index fails with the error naming the index and the number found, and no
\* bitrate or start command is issued.
C5_IndexSelection ==
    (/\ last.op = "init"
     /\ last.index # None /\ last.bus = None /\ last.address = None)
    => LET i == last.index[1]
           n == last.ndevs
       IN  IF 0 <= i /\ i < n
           THEN self.gs_usb = Some(Scan(n)[i + 1])
           ELSE /\ last.exc = CanInitializationError(
                      "Cannot find device {index}. Devices found: {len(devs)}",
                      <<i, n>>, "")
                /\ calls = <<"GsUsb.scan">>

\* C6: the frame send builds from a message, read back and decoded, gives a
\* message with the same arbitration id, the same six flags, the same data
\* length and the same data.
C6_RoundTrip ==
    (last.op = "recv" /\ last.read = "echo")
    => LET m == last.src[1]
           d == last.ret[1][1]
       IN  /\ d.arbitration_id = m.arbitration_id
           /\ d.is_extended_id = m.is_extended_id
           /\ d.is_remote_frame = m.is_remote_frame
           /\ d.is_error_frame = m.is_error_frame
           /\ d.is_fd = m.is_fd
           /\ d.bitrate_switch = m.bitrate_switch
           /\ d.error_state_indicator = m.error_state_indicator
           /\ d.dlc = m.dlc
           /\ d.data = m.data

\* C7: a send whose device submission fails raises a CanOperationError from
\* the USBError, after exactly one device send, and changes nothing else:
\* the session, the device and the frame in flight are as before the call.
C7_TransmitFailure ==
    [][(ops' # ops /\ last'.op = "send" /\ last'.outcome = "USBError")
       => /\ last'.exc =
                CanOperationError("The message could not be sent", "USBError")
          /\ calls' = Append(calls, "send")
          /\ <<pc, given, self, dev, wire>>' = <<pc, given, self, dev, wire>>]_vars

\* A send failed while the device held an earlier frame, and the session is
\* open with the frame still in flight.
C7_Witness ==
    /\ last.op = "send" /\ last.outcome = "USBError"
    /\ last.exc.type = "CanOperationError"
    /\ pc = "open" /\ dev = "running"
    /\ wire # None /\ wire[1].msg # last.msg

\* C8: a frame a read delivered is always returned as a message carrying the
\* session's channel, marked is_rx exactly when its echo id is
\* GS_USB_NONE_ECHO_ID.
C8_EchoClassification ==
    (last.op = "recv" /\ last.read \in {"frame", "echo"})
    => /\ last.exc = NoExc
       /\ Len(last.ret) = 2 /\ last.ret[1] # None /\ last.ret[2] = FALSE
       /\ last.ret[1][1].is_rx = (last.frame.echo_id = GS_USB_NONE_ECHO_ID)
       /\ last.ret[1][1].channel = self.channel_info
       /\ self.channel_info # None

\* A frame whose echo id is neither the sentinel nor that of a transmit frame
\* came back as a message marked as an echo.
C8_Witness ==
    /\ last.op = "recv" /\ last.read = "frame"
    /\ last.frame.echo_id \notin {GS_USB_NONE_ECHO_ID, GS_USB_ECHO_ID}
    /\ last.ret[1] # None
    /\ ~last.ret[1][1].is_rx

\* C9: every shutdown calls BusABC.shutdown and then, once, the device's
\* stop, whatever came before it and whether or not the device was running.
C9_ShutdownOrder ==
    /\ \A i \in DOMAIN calls :
        /\ calls[i] = "stop" => i > 1 /\ calls[i - 1] = "BusABC.shutdown"
        /\ calls[i] = "BusABC.shutdown" =>
             i < Len(calls) /\ calls[i + 1] = "stop"
    /\ last.op = "shutdown" =>
        /\ Len(calls) >= 2
        /\ SubSeq(calls, Len(calls) - 1, Len(calls)) = <<"BusABC.shutdown", "stop">>

\* A second shutdown, of a device already stopped, after a send.
C9_Witness ==
    /\ last.op = "shutdown"
    /\ \E i \in DOMAIN calls : calls[i] = "send"
    /\ Cardinality({i \in DOMAIN calls : calls[i] = "stop"}) = 2

\* C10: start is issued at most once, in construction, after the nominal
\* bitrate and after the data bitrate, which is set only when given; send,
\* receive and shutdown issue no start and no bitrate command, and a stopped
\* device is never running again.
C10_SingleUse ==
    /\ [](LET At(names) == {i \in DOMAIN calls : calls[i] \in names}
          IN  /\ Cardinality(At({"start"})) <= 1
              /\ \A i \in At({"start"}) :
                  /\ \E j \in At({"set_bitrate"}) : j < i
                  /\ given.data_bitrate # None =>
                        \E j \in At({"set_bitrate(data)"}) : j < i
              /\ Cardinality(At({"set_bitrate"})) <= 1
              /\ given.data_bitrate = None => At({"set_bitrate(data)"}) = {}
              /\ \A i \in At({"set_bitrate", "set_bitrate(data)", "start"}) :
                    \A j \in At({"send", "read", "BusABC.shutdown", "stop"}) :
                        i < j)
    /\ [][dev = "stopped" => dev' # "running"]_vars

\* A session configured with a data bitrate, stopped, and sent on afterwards.
C10_Witness ==
    /\ given.data_bitrate # None
    /\ dev = "stopped"
    /\ last.op = "send"
    /\ \E i \in DOMAIN calls : calls[i] = "start"

====
